---- MODULE Spec2Model ----
(***************************************************************************)
(* State-machine model of spotifyfetch's token lifecycle (src/auth.rs):    *)
(* AuthToken::get_valid_token with load / is_expired / refresh / save and  *)
(* the authorization-code flow of Auth (browser, callback listener, code   *)
(* exchange), run over a bounded number of sequential process invocations. *)
(***************************************************************************)
EXTENDS Integers, Sequences, FiniteSets, TLC

VARIABLES
    file,             \* tokens.json on disk
    now,              \* SystemTime::now() in seconds since UNIX_EPOCH
    overflow_checks,  \* build profile: TRUE = arithmetic overflow panics, FALSE = wraps
    config_dir,       \* dirs::config_dir() is Some(..)
    run,              \* number of the current process invocation
    pc,               \* position inside get_valid_token
    file0,            \* content of tokens.json when the invocation started
    token_data,       \* the local `token_data: AuthToken`
    auth,             \* the local `auth: Auth`
    code,             \* the local `code` returned by wait_for_callback
    response,         \* the last token-endpoint response received
    result,           \* what get_valid_token returned (or that it panicked)
    listener,         \* the tiny_http server socket
    main_pc,          \* position of main after get_valid_token
    trace             \* the I/O effects of the current invocation, in order

vars == <<file, now, overflow_checks, config_dir, run, pc, file0, token_data,
          auth, code, response, result, listener, main_pc, trace>>

-----------------------------------------------------------------------------
(* Bounds of the model *)

MaxRuns == 2

(* Program constants *)

MARGIN == 60

\* u64 arithmetic. TLC's integers are 32-bit, so the word is scaled down to
\* 30 bits; every time value of the model other than the deliberately huge
\* expires_in stays far below it, as real epoch seconds stay below 2^64.
U64 == 2^30

CLIENT_ID == "ebdbdb22841c48648acf563e594d928e"
TOKEN_URL == "https://accounts.spotify.com/api/token"
AUTHORIZE_URL == "https://accounts.spotify.com/authorize"
REDIRECT_URI == "http://localhost:8888/callback"
AUTH_SCOPE == "user-top-read"

-----------------------------------------------------------------------------
(* JSON text: an object is a sequence of <<key, value>> members, and it is  *)
(* `closed` when the text is complete (a truncated document is not).        *)

JStr(s) == [t |-> "str", s |-> s, n |-> 0]
JNum(n) == [t |-> "num", s |-> "", n |-> n]
JNull == [t |-> "null", s |-> "", n |-> 0]

Doc(pairs, closed) == [pairs |-> pairs, closed |-> closed]

Members(doc, key) == {i \in 1..Len(doc.pairs) : doc.pairs[i][1] = key}

Member(doc, key) == doc.pairs[CHOOSE i \in Members(doc, key) : TRUE][2]

\* a required field of type String / u64: present exactly once, of that type
HasStr(doc, key) ==
    Cardinality(Members(doc, key)) = 1 /\ Member(doc, key).t = "str"

HasU64(doc, key) ==
    /\ Cardinality(Members(doc, key)) = 1
    /\ Member(doc, key).t = "num"
    /\ Member(doc, key).n >= 0 /\ Member(doc, key).n < U64

\* a field of type Option<String>: absent, null, or a string; never twice
HasOptStr(doc, key) ==
    \/ Members(doc, key) = {}
    \/ Cardinality(Members(doc, key)) = 1 /\ Member(doc, key).t \in {"str", "null"}

-----------------------------------------------------------------------------
(* AuthToken and the token file *)

NoRT == "<none>"

AuthToken(at, rt, exp) ==
    [access_token |-> at, refresh_token |-> rt, expires_at |-> exp]

NoToken == AuthToken("", "", 0)

\* a field renamed on the writing side only (expires_in for expires_at)
to_string_pretty_renamed(t) ==
    Doc(<< <<"access_token", JStr(t.access_token)>>,
           <<"refresh_token", JStr(t.refresh_token)>>,
           <<"expires_in", JNum(t.expires_at)>> >>, TRUE)

\* serde_json::to_string_pretty(self)
to_string_pretty(t) ==
    Doc(<< <<"access_token", JStr(t.access_token)>>,
           <<"refresh_token", JStr(t.refresh_token)>>,
           <<"expires_at", JNum(t.expires_at)>> >>, TRUE)

\* serde_json::from_str::<AuthToken>(&json)
from_str_ok(doc) ==
    /\ doc.closed
    /\ HasStr(doc, "access_token")
    /\ HasStr(doc, "refresh_token")
    /\ HasU64(doc, "expires_at")

from_str(doc) ==
    AuthToken(Member(doc, "access_token").s,
              Member(doc, "refresh_token").s,
              Member(doc, "expires_at").n)

FileMissing == [kind |-> "missing", doc |-> Doc(<<>>, FALSE)]
FileUnreadable == [kind |-> "unreadable", doc |-> Doc(<<>>, FALSE)]
FileText(doc) == [kind |-> "text", doc |-> doc]

\* AuthToken::load: fs::read_to_string(path)? then serde_json::from_str(&json)?
load_ok(f) == f.kind = "text" /\ from_str_ok(f.doc)

load(f) == from_str(f.doc)

-----------------------------------------------------------------------------
(* u64 arithmetic of the two build profiles *)

sub_overflows(a, b) == a - b < 0
add_overflows(a, b) == a + b >= U64
wrapping_sub(a, b) == (a - b) % U64
wrapping_add(a, b) == (a + b) % U64

\* the test negated, as in `if !token_data.is_expired()`
is_expired_negated(t, n) == ~(n >= wrapping_sub(t.expires_at, MARGIN))

\* AuthToken::is_expired, where the subtraction did not panic
is_expired(t, n) == n >= wrapping_sub(t.expires_at, MARGIN)

-----------------------------------------------------------------------------
(* The token endpoint *)

\* the form-encoded POST bodies
RefreshParams(refresh_token) ==
    [grant_type |-> "refresh_token", refresh_token |-> refresh_token,
     client_id |-> CLIENT_ID, code |-> "", redirect_uri |-> "",
     code_verifier |-> ""]

\* the exchange sends the challenge where the verifier belongs
ExchangeParams_challenge(c, verifier) ==
    [grant_type |-> "authorization_code", refresh_token |-> "",
     client_id |-> CLIENT_ID, code |-> c, redirect_uri |-> REDIRECT_URI,
     code_verifier |-> IF verifier = "v1" THEN "c1" ELSE "c2"]

ExchangeParams(c, verifier) ==
    [grant_type |-> "authorization_code", refresh_token |-> "",
     client_id |-> CLIENT_ID, code |-> c, redirect_uri |-> REDIRECT_URI,
     code_verifier |-> verifier]

AccessTokens == {"a1", "a2"}
RefreshTokens == {"r1", "r2"}
ExpiresIn == {30, 100, U64 - 50}
Statuses == {200, 400}

TokenBody(at, rt, ein) ==
    Doc(<< <<"access_token", JStr(at)>> >>
        \o (IF rt = NoRT THEN <<>> ELSE << <<"refresh_token", JStr(rt)>> >>)
        \o << <<"expires_in", JNum(ein)>> >>, TRUE)

NullRTBody ==
    Doc(<< <<"access_token", JStr("a2")>>, <<"refresh_token", JNull>>,
           <<"expires_in", JNum(100)>> >>, TRUE)

ErrorBody == Doc(<< <<"error", JStr("invalid_grant")>> >>, TRUE)
GarbageBody == Doc(<<>>, FALSE)

Bodies ==
    {TokenBody(at, rt, ein) :
        at \in {"a2"}, rt \in {NoRT, "r2"}, ein \in ExpiresIn}
    \cup {NullRTBody, ErrorBody, GarbageBody}

\* what `send().await` yields: a transport error, or a response
HttpResponse(status, body) == [sent |-> TRUE, status |-> status, body |-> body]
TransportError == [sent |-> FALSE, status |-> 0, body |-> GarbageBody]
NoResponse == [sent |-> FALSE, status |-> 0, body |-> Doc(<<>>, TRUE)]

Responses ==
    {TransportError} \cup {HttpResponse(st, b) : st \in Statuses, b \in Bodies}

is_success(status) == status >= 200 /\ status < 300

\* response.json::<RefreshResponse>()
RefreshResponse_ok(body) ==
    /\ body.closed
    /\ HasStr(body, "access_token")
    /\ HasOptStr(body, "refresh_token")
    /\ HasU64(body, "expires_in")

RefreshResponse(body) ==
    [access_token |-> Member(body, "access_token").s,
     refresh_token |->
        IF Members(body, "refresh_token") # {}
           /\ Member(body, "refresh_token").t = "str"
        THEN Member(body, "refresh_token").s ELSE NoRT,
     expires_in |-> Member(body, "expires_in").n]

\* response.json::<TokenResponse>()
TokenResponse_ok(body) ==
    /\ body.closed
    /\ HasStr(body, "access_token")
    /\ HasStr(body, "refresh_token")
    /\ HasU64(body, "expires_in")

TokenResponse(body) ==
    [access_token |-> Member(body, "access_token").s,
     refresh_token |-> Member(body, "refresh_token").s,
     expires_in |-> Member(body, "expires_in").n]

\* unwrap_or_default(): an omitted refresh token becomes the empty string
unwrap_or_default(opt, default) == IF opt = NoRT THEN "" ELSE opt

\* refresh_response.refresh_token.unwrap_or_else(|| refresh_token.to_string())
unwrap_or_else(opt, default) == IF opt = NoRT THEN default ELSE opt

-----------------------------------------------------------------------------
(* PKCE and the authorization URL *)

Verifiers == {"v1", "v2"}

\* URL_SAFE_NO_PAD.encode(Sha256(verifier)): a one-way map, injective on the
\* verifiers of the model and never equal to its argument
generate_code_challenge(verifier) ==
    CASE verifier = "v1" -> "c1"
      [] verifier = "v2" -> "c2"
      [] OTHER -> "c?"

build_auth_url(code_challenge) ==
    [base |-> AUTHORIZE_URL,
     query |-> << <<"client_id", CLIENT_ID>>,
                  <<"response_type", "code">>,
                  <<"redirect_uri", REDIRECT_URI>>,
                  <<"code_challenge_method", "S256">>,
                  <<"code_challenge", code_challenge>>,
                  <<"scope", AUTH_SCOPE>> >>]

\* the `plain` method: the verifier itself is put in the URL as the challenge
NewAuth_plain(code_verifier) ==
    [code_verifier |-> code_verifier,
     auth_url |-> build_auth_url(code_verifier)]

NewAuth(code_verifier) ==
    [code_verifier |-> code_verifier,
     auth_url |-> build_auth_url(generate_code_challenge(code_verifier))]

NoAuth == [code_verifier |-> "", auth_url |-> [base |-> "", query |-> <<>>]]

-----------------------------------------------------------------------------
(* The callback request *)

\* what the browser (or anything else) sends to 127.0.0.1:8888: the query
\* pairs of request.url(), or a target that Url::parse rejects
Request(parses, query) == [parses |-> parses, query |-> query]

Requests ==
    { Request(TRUE, << <<"code", "ABC123">> >>),
      Request(TRUE, << <<"state", "s">>, <<"code", "ABC123">> >>),
      Request(TRUE, << <<"code", "XYZ">>, <<"code", "ABC123">> >>),
      Request(TRUE, << <<"error", "access_denied">> >>),
      Request(TRUE, <<>>),
      Request(FALSE, <<>>) }

\* the first query pair is taken, whatever its key
CodeIndexes_any_key(query) == 1..Len(query)

\* parsed_url.query_pairs().find(|(key, _)| key == "code")
CodeIndexes(query) == {i \in 1..Len(query) : query[i][1] = "code"}

find_code(query) ==
    LET first == CHOOSE i \in CodeIndexes(query) :
                    \A j \in CodeIndexes(query) : i <= j
    IN  query[first][2]

-----------------------------------------------------------------------------
(* Results and effects *)

NoResult == [kind |-> "none", value |-> ""]
Ok(access_token) == [kind |-> "ok", value |-> access_token]
Err(e) == [kind |-> "err", value |-> e]
Panic(msg) == [kind |-> "panic", value |-> msg]

\* one I/O effect of the invocation
Event(op, arg) == [op |-> op, arg |-> arg]

-----------------------------------------------------------------------------
(* Initial states: any token file a previous run or the user may have left, *)
(* any clock reading, either build profile.                                 *)

Times == {40, 99, 100, 101}
InitExpires == {30, 100, 160, 250}

InitFiles ==
    {FileMissing, FileUnreadable,
     FileText(Doc(<<>>, FALSE)),
     FileText(Doc(<< <<"access_token", JStr("a1")>>,
                     <<"expires_at", JNum(250)>> >>, TRUE))}
    \cup {FileText(to_string_pretty(AuthToken("a1", "r1", exp))) :
            exp \in InitExpires}

Init ==
    /\ file \in InitFiles
    /\ now \in Times
    /\ overflow_checks \in BOOLEAN
    /\ config_dir \in BOOLEAN
    /\ run = 1
    /\ pc = "load"
    /\ file0 = file
    /\ token_data = NoToken
    /\ auth = NoAuth
    /\ code = ""
    /\ response = NoResponse
    /\ result = NoResult
    /\ listener = "unbound"
    /\ main_pc = "get_valid_token"
    /\ trace = <<>>

env == <<overflow_checks, config_dir, run, file0, main_pc>>

-----------------------------------------------------------------------------
(* get_valid_token, statement by statement *)

\* `Self::load()?`: a file that cannot be read is surfaced as an error
Load_propagates ==
    /\ pc = "load"
    /\ IF ~config_dir
       THEN /\ result' = Panic("Could not find config directory")
            /\ pc' = "done"
            /\ UNCHANGED <<token_data, trace>>
       ELSE IF load_ok(file)
       THEN /\ token_data' = load(file)
            /\ pc' = "is_expired"
            /\ trace' = Append(trace, Event("load", "ok"))
            /\ UNCHANGED result
       ELSE IF file.kind = "unreadable"
       THEN /\ result' = Err("io: read failed")
            /\ pc' = "done"
            /\ trace' = Append(trace, Event("load", "err"))
            /\ UNCHANGED token_data
       ELSE /\ pc' = "auth_new"
            /\ trace' = Append(trace, Event("load", "err"))
                        \o << Event("print", "No tokens found, starting authorization flow...") >>
            /\ UNCHANGED <<token_data, result>>
    /\ UNCHANGED <<file, now, env, auth, code, response, listener>>

\* line 30: Self::load(), with get_token_path's expect on the config directory
Load ==
    /\ pc = "load"
    /\ IF ~config_dir
       THEN /\ result' = Panic("Could not find config directory")
            /\ pc' = "done"
            /\ UNCHANGED <<token_data, trace>>
       ELSE IF load_ok(file)
       THEN /\ token_data' = load(file)
            /\ pc' = "is_expired"
            /\ trace' = Append(trace, Event("load", "ok"))
            /\ UNCHANGED result
       ELSE /\ pc' = "auth_new"
            /\ trace' = Append(trace, Event("load", "err"))
                        \o << Event("print", "No tokens found, starting authorization flow...") >>
            /\ UNCHANGED <<token_data, result>>
    /\ UNCHANGED <<file, now, env, auth, code, response, listener>>

\* lines 32, 38: token_data.is_expired(), and the Fresh return
IsExpired ==
    /\ pc = "is_expired"
    /\ IF overflow_checks /\ sub_overflows(token_data.expires_at, MARGIN)
       THEN /\ result' = Panic("attempt to subtract with overflow")
            /\ pc' = "done"
            /\ UNCHANGED trace
       ELSE IF is_expired(token_data, now)
       THEN /\ pc' = "refresh_send"
            /\ trace' = Append(trace, Event("print", "Access token expired, refreshing..."))
            /\ UNCHANGED result
       ELSE /\ result' = Ok(token_data.access_token)
            /\ pc' = "done"
            /\ UNCHANGED trace
    /\ UNCHANGED <<file, now, env, token_data, auth, code, response, listener>>

\* lines 82-90: the POST of refresh_access_token is sent
RefreshSend ==
    /\ pc = "refresh_send"
    /\ trace' = Append(trace, Event("refresh", RefreshParams(token_data.refresh_token)))
    /\ pc' = "refresh_recv"
    /\ UNCHANGED <<file, now, env, token_data, auth, code, response, result, listener>>

\* lines 90-113: the answer to the refresh request
RefreshRecv ==
    /\ pc = "refresh_recv"
    /\ \E resp \in Responses :
        /\ response' = resp
        /\ IF ~resp.sent
           THEN /\ result' = Err("reqwest: error sending request")
                /\ pc' = "done"
                /\ UNCHANGED token_data
           ELSE IF ~RefreshResponse_ok(resp.body)
           THEN /\ result' = Err("reqwest: error decoding response body")
                /\ pc' = "done"
                /\ UNCHANGED token_data
           ELSE LET refresh_response == RefreshResponse(resp.body) IN
                IF overflow_checks /\ add_overflows(now, refresh_response.expires_in)
                THEN /\ result' = Panic("attempt to add with overflow")
                     /\ pc' = "done"
                     /\ UNCHANGED token_data
                ELSE /\ token_data' =
                            AuthToken(refresh_response.access_token,
                                      unwrap_or_else(refresh_response.refresh_token,
                                                     token_data.refresh_token),
                                      wrapping_add(now, refresh_response.expires_in))
                     /\ pc' = "save_refreshed"
                     /\ UNCHANGED result
    /\ UNCHANGED <<file, now, env, auth, code, listener, trace>>

\* AuthToken::save (lines 59-64): fs::write creates or truncates the file and
\* then writes the text; it can fail before touching the file, or after
\* truncating it with only part of the text written: any proper prefix of the
\* text, from the empty file to all the members with the closing brace missing
WriteOutcomes(doc) ==
    {[ok |-> TRUE, touched |-> TRUE, file |-> FileText(doc)]}
    \cup {[ok |-> FALSE, touched |-> FALSE, file |-> file]}
    \cup {[ok |-> FALSE, touched |-> TRUE,
           file |-> FileText(Doc(SubSeq(doc.pairs, 1, k), FALSE))] :
            k \in 0..Len(doc.pairs)}

\* `let _ = token_data.save();`: the token is returned whatever save did
Save_ignores_error(at, msgs) ==
    /\ pc = at
    /\ \E w \in WriteOutcomes(to_string_pretty(token_data)) :
        /\ file' = w.file
        /\ trace' = (IF w.touched THEN Append(trace, Event("write", w.file))
                     ELSE trace)
                    \o (IF w.ok THEN msgs ELSE <<>>)
        /\ result' = Ok(token_data.access_token)
    /\ pc' = "done"
    /\ UNCHANGED <<now, env, token_data, auth, code, response, listener>>

\* lines 35-38 and 44-45: token_data.save()?, then Ok(token_data.access_token)
Save(at, msgs) ==
    /\ pc = at
    /\ \E w \in WriteOutcomes(to_string_pretty(token_data)) :
        /\ file' = w.file
        /\ trace' = (IF w.touched THEN Append(trace, Event("write", w.file))
                     ELSE trace)
                    \o (IF w.ok THEN msgs ELSE <<>>)
        /\ result' = IF w.ok THEN Ok(token_data.access_token)
                     ELSE Err("io: write failed")
    /\ pc' = "done"
    /\ UNCHANGED <<now, env, token_data, auth, code, response, listener>>

SaveRefreshed ==
    Save("save_refreshed", << Event("print", "Token refreshed successfully!") >>)

SaveExchanged == Save("save_exchanged", <<>>)

-----------------------------------------------------------------------------
(* The authorization-code flow *)

\* line 42, Auth::new (lines 130-139): 32 random bytes make the verifier
AuthNew ==
    /\ pc = "auth_new"
    /\ \E code_verifier \in Verifiers :
        /\ auth' = NewAuth(code_verifier)
        /\ trace' = Append(trace, Event("verifier", code_verifier))
    /\ pc' = "open_browser"
    /\ UNCHANGED <<file, now, env, token_data, code, response, result, listener>>

\* lines 142-143: open::that(self.auth_url.clone())?
OpenBrowser ==
    /\ pc = "open_browser"
    /\ \E opened \in BOOLEAN :
        /\ trace' = trace
                    \o << Event("print", "Opening browser for authorization..."),
                          Event("open", auth.auth_url) >>
        /\ IF opened
           THEN pc' = "bind" /\ UNCHANGED result
           ELSE pc' = "done" /\ result' = Err("io: could not open the browser")
    /\ UNCHANGED <<file, now, env, token_data, auth, code, response, listener>>

\* line 163: tiny_http::Server::http("127.0.0.1:8888").unwrap()
Bind ==
    /\ pc = "bind"
    /\ \E bound \in BOOLEAN :
        IF bound
        THEN /\ listener' = "bound"
             /\ pc' = "recv"
             /\ trace' = trace
                         \o << Event("bind", "127.0.0.1:8888"),
                               Event("print", "Waiting for authorization callback...") >>
             /\ UNCHANGED result
        ELSE /\ result' = Panic("called Result::unwrap() on an Err value")
             /\ pc' = "done"
             /\ UNCHANGED <<listener, trace>>
    /\ UNCHANGED <<file, now, env, token_data, auth, code, response>>

\* the server outlives wait_for_callback (kept in a field, never dropped)
Recv_keeps_server ==
    /\ pc = "recv"
    /\ listener' = listener
    /\ \/ /\ result' = Err("io: recv failed")
          /\ pc' = "done"
          /\ UNCHANGED <<code, trace>>
       \/ \E request \in Requests :
            IF ~request.parses
            THEN /\ result' = Err("url: parse error")
                 /\ pc' = "done"
                 /\ trace' = Append(trace, Event("accept", request))
                 /\ UNCHANGED code
            ELSE IF CodeIndexes(request.query) = {}
            THEN /\ result' = Err("No code found in callback")
                 /\ pc' = "done"
                 /\ trace' = Append(trace, Event("accept", request))
                 /\ UNCHANGED code
            ELSE \E responded \in BOOLEAN :
                 /\ trace' = trace
                             \o << Event("accept", request),
                                   Event("respond", "Authorization successful! You can close this window.") >>
                 /\ IF responded
                    THEN /\ code' = find_code(request.query)
                         /\ pc' = "exchange_send"
                         /\ UNCHANGED result
                    ELSE /\ result' = Err("io: respond failed")
                         /\ pc' = "done"
                         /\ UNCHANGED code
    /\ UNCHANGED <<file, now, env, token_data, auth, response>>

\* lines 166-181: one request is received and handled; the server is dropped
\* when wait_for_callback returns, whatever it returns
Recv ==
    /\ pc = "recv"
    /\ listener' = "released"
    /\ \/ /\ result' = Err("io: recv failed")
          /\ pc' = "done"
          /\ UNCHANGED <<code, trace>>
       \/ \E request \in Requests :
            IF ~request.parses
            THEN /\ result' = Err("url: parse error")
                 /\ pc' = "done"
                 /\ trace' = Append(trace, Event("accept", request))
                 /\ UNCHANGED code
            ELSE IF CodeIndexes(request.query) = {}
            THEN /\ result' = Err("No code found in callback")
                 /\ pc' = "done"
                 /\ trace' = Append(trace, Event("accept", request))
                 /\ UNCHANGED code
            ELSE \E responded \in BOOLEAN :
                 /\ trace' = trace
                             \o << Event("accept", request),
                                   Event("respond", "Authorization successful! You can close this window.") >>
                 /\ IF responded
                    THEN /\ code' = find_code(request.query)
                         /\ pc' = "exchange_send"
                         /\ UNCHANGED result
                    ELSE /\ result' = Err("io: respond failed")
                         /\ pc' = "done"
                         /\ UNCHANGED code
    /\ UNCHANGED <<file, now, env, token_data, auth, response>>

\* lines 185-198: the POST of exchange_code_for_token is sent
ExchangeSend ==
    /\ pc = "exchange_send"
    /\ trace' = Append(trace, Event("exchange", ExchangeParams(code, auth.code_verifier)))
    /\ pc' = "exchange_recv"
    /\ UNCHANGED <<file, now, env, token_data, auth, code, response, result, listener>>

\* lines 199-203 and 149-159: the answer to the exchange request
ExchangeRecv ==
    /\ pc = "exchange_recv"
    /\ \E resp \in Responses :
        /\ response' = resp
        /\ IF ~resp.sent
           THEN /\ result' = Err("reqwest: error sending request")
                /\ pc' = "done"
                /\ UNCHANGED token_data
           ELSE IF ~TokenResponse_ok(resp.body)
           THEN /\ result' = Err("reqwest: error decoding response body")
                /\ pc' = "done"
                /\ UNCHANGED token_data
           ELSE LET token_response == TokenResponse(resp.body) IN
                IF overflow_checks /\ add_overflows(now, token_response.expires_in)
                THEN /\ result' = Panic("attempt to add with overflow")
                     /\ pc' = "done"
                     /\ UNCHANGED token_data
                ELSE /\ token_data' =
                            AuthToken(token_response.access_token,
                                      token_response.refresh_token,
                                      wrapping_add(now, token_response.expires_in))
                     /\ pc' = "save_exchanged"
                     /\ UNCHANGED result
    /\ UNCHANGED <<file, now, env, auth, code, listener, trace>>

-----------------------------------------------------------------------------
(* The environment: time passes while the process waits and between runs,   *)
(* and the CLI is run again.                                                *)

Tick ==
    /\ pc \in {"refresh_recv", "recv", "exchange_recv", "done"}
    /\ \E t \in Times : t > now /\ now' = t
    /\ UNCHANGED <<file, env, pc, token_data, auth, code, response, result,
                   listener, trace>>

\* main.rs lines 26-39: `get_valid_token().await?` gave the access token, and
\* fetch_user_top_tracks is called with it
FetchTracks_unchecked ==
    /\ pc = "done"
    /\ main_pc = "get_valid_token"
    /\ trace' = Append(trace, Event("fetch_tracks", result.value))
    /\ \E fetched \in BOOLEAN :
        main_pc' = IF fetched THEN "fetch_artists" ELSE "exit"
    /\ UNCHANGED <<file, now, overflow_checks, config_dir, run, file0, pc,
                   token_data, auth, code, response, result, listener>>

FetchTracks ==
    /\ pc = "done"
    /\ main_pc = "get_valid_token"
    /\ result.kind = "ok"
    /\ trace' = Append(trace, Event("fetch_tracks", result.value))
    /\ \E fetched \in BOOLEAN :
        main_pc' = IF fetched THEN "fetch_artists" ELSE "exit"
    /\ UNCHANGED <<file, now, overflow_checks, config_dir, run, file0, pc,
                   token_data, auth, code, response, result, listener>>

\* main.rs lines 40-45: fetch_user_top_artists is called with the same token;
\* what follows in main only renders
FetchArtists ==
    /\ pc = "done"
    /\ main_pc = "fetch_artists"
    /\ trace' = Append(trace, Event("fetch_artists", result.value))
    /\ main_pc' = "exit"
    /\ UNCHANGED <<file, now, overflow_checks, config_dir, run, file0, pc,
                   token_data, auth, code, response, result, listener>>

\* the process has ended (main returned the error, panicked or exited), and
\* the CLI is run again
NextRun ==
    /\ pc = "done"
    /\ main_pc = "exit" \/ result.kind # "ok"
    /\ run < MaxRuns
    /\ run' = run + 1
    /\ pc' = "load"
    /\ file0' = file
    /\ token_data' = NoToken
    /\ auth' = NoAuth
    /\ code' = ""
    /\ response' = NoResponse
    /\ result' = NoResult
    /\ listener' = "unbound"
    /\ main_pc' = "get_valid_token"
    /\ trace' = <<>>
    /\ UNCHANGED <<file, now, overflow_checks, config_dir>>

Next ==
    \/ Load
    \/ IsExpired
    \/ RefreshSend
    \/ RefreshRecv
    \/ SaveRefreshed
    \/ AuthNew
    \/ OpenBrowser
    \/ Bind
    \/ Recv
    \/ ExchangeSend
    \/ ExchangeRecv
    \/ SaveExchanged
    \/ FetchTracks
    \/ FetchArtists
    \/ Tick
    \/ NextRun

Spec == Init /\ [][Next]_vars

-----------------------------------------------------------------------------
(* Vocabulary of the properties *)

OpIndexes(op) == {i \in 1..Len(trace) : trace[i].op = op}
HasOp(op) == OpIndexes(op) # {}
TheOp(op) == trace[CHOOSE i \in OpIndexes(op) : TRUE]
Before(op1, op2) ==
    \A j \in OpIndexes(op2) : \E i \in OpIndexes(op1) : i < j

\* the classification of section 4.5, in unbounded integers
Stale(t, n) == n >= t.expires_at - MARGIN
Fresh(t, n) == n < t.expires_at - MARGIN

NoAuthorizationFlow ==
    /\ ~HasOp("verifier") /\ ~HasOp("open") /\ ~HasOp("bind")
    /\ ~HasOp("accept") /\ ~HasOp("exchange")
    /\ listener = "unbound"

NoTokenRequest == ~HasOp("refresh") /\ ~HasOp("exchange")

QueryValues(query, key) ==
    {query[i][2] : i \in {j \in 1..Len(query) : query[j][1] = key}}

Persisted(t) == file = FileText(to_string_pretty(t))

-----------------------------------------------------------------------------
(* C1 *)

\* the refresh path, once taken: refresh carries the stored refresh token, no
\* browser or listener is used, and a token is returned only with the new
\* credential on disk
C1_RefreshPath ==
    (load_ok(file0) /\ HasOp("refresh")) =>
        /\ Cardinality(OpIndexes("refresh")) = 1
        /\ TheOp("refresh").arg.grant_type = "refresh_token"
        /\ TheOp("refresh").arg.refresh_token = load(file0).refresh_token
        /\ ~HasOp("verifier") /\ ~HasOp("open") /\ ~HasOp("bind")
        /\ ~HasOp("accept") /\ ~HasOp("exchange") /\ listener = "unbound"
        /\ result.kind = "ok" =>
              /\ HasOp("write") /\ Before("refresh", "write")
              /\ Persisted(token_data)
              /\ result.value = token_data.access_token

\* a loaded credential that is Stale goes to refresh
C1_StaleStep ==
    (pc = "is_expired" /\ Stale(token_data, now)) => pc' = "refresh_send"

\* C1: whenever load succeeds and the credential is Stale (now >= expires_at
\* - 60), the invocation refreshes with exactly the stored refresh token,
\* uses no browser and no listener, writes the new credential and only then
\* returns its access token.
C1_StaleIsRefreshed == []C1_RefreshPath /\ [][C1_StaleStep]_vars

-----------------------------------------------------------------------------
(* C2 *)

\* C2: when load fails, the steps of the invocation come in this order:
\* verifier generated; browser opened on an authorization URL with method
\* S256 and the challenge of that verifier; one request accepted; the code
\* exchange sent with exactly the captured code and that verifier; the
\* credential written; the access token returned.
C2_ColdStartOrder ==
    (~load_ok(file0) /\ pc # "load") =>
        /\ ~HasOp("refresh")
        /\ HasOp("open") =>
              /\ Before("verifier", "open")
              /\ TheOp("open").arg = auth.auth_url
              /\ QueryValues(TheOp("open").arg.query, "code_challenge_method")
                    = {"S256"}
              /\ QueryValues(TheOp("open").arg.query, "code_challenge")
                    = {generate_code_challenge(TheOp("verifier").arg)}
        /\ Before("open", "bind")
        /\ Before("bind", "accept")
        /\ Before("accept", "exchange")
        /\ HasOp("exchange") =>
              /\ Cardinality(OpIndexes("verifier")) = 1
              /\ Cardinality(OpIndexes("accept")) = 1
              /\ TheOp("exchange").arg.grant_type = "authorization_code"
              /\ TheOp("exchange").arg.code = code
              /\ code \in QueryValues(TheOp("accept").arg.query, "code")
              /\ TheOp("exchange").arg.code_verifier = TheOp("verifier").arg
        /\ Before("exchange", "write")
        /\ result.kind = "ok" =>
              /\ HasOp("exchange") /\ HasOp("write")
              /\ Persisted(token_data)
              /\ result.value = token_data.access_token

C2_Witness ==
    /\ ~load_ok(file0) /\ pc = "done" /\ result.kind = "ok"
    /\ HasOp("exchange")
    /\ TheOp("exchange").arg.code = "ABC123"
    /\ Persisted(token_data)

-----------------------------------------------------------------------------
(* C3 *)

C3_FreshStep ==
    (pc = "is_expired" /\ Fresh(token_data, now)) =>
        /\ pc' = "done"
        /\ result' = Ok(load(file0).access_token)
        /\ file' = file /\ file' = file0
        /\ trace' = << Event("load", "ok") >>
        /\ listener' = "unbound"

\* C3: whenever load succeeds and the credential is Fresh (now < expires_at
\* - 60), the invocation sends no token request, opens no browser, binds no
\* listener, leaves the token file as it was and returns the stored access
\* token.
C3_FreshReturnsStored == [][C3_FreshStep]_vars

C3_Witness ==
    /\ pc = "done" /\ load_ok(file0) /\ Fresh(load(file0), now)
    /\ result = Ok("a1") /\ file = file0 /\ NoTokenRequest /\ NoAuthorizationFlow

-----------------------------------------------------------------------------
(* C4 *)

C4_ExpiryStep ==
    pc = "is_expired" =>
        /\ result'.kind # "panic"
        /\ (pc' = "refresh_send") <=> Stale(token_data, now)
        /\ (pc' = "done" /\ result'.kind = "ok") <=> Fresh(token_data, now)

\* C4: for every stored expires_at T, T < 60 included, and every current
\* time, is_expired classifies the credential as Stale exactly when
\* now >= T - 60 and Fresh exactly when now < T - 60, and never aborts the
\* invocation.
C4_ExpiryPredicate == [][C4_ExpiryStep]_vars

-----------------------------------------------------------------------------
(* C5 *)

RefreshAnswered ==
    HasOp("refresh") /\ pc \notin {"refresh_send", "refresh_recv"}

RefreshFailed ==
    /\ RefreshAnswered
    /\ \/ ~response.sent
       \/ ~is_success(response.status)
       \/ ~RefreshResponse_ok(response.body)

\* C5: when the refresh request fails (transport error, non-success status
\* or unparseable body), the invocation returns an error and never starts
\* the authorization-code flow.
C5_RefreshFailureIsTerminal ==
    RefreshFailed =>
        /\ pc = "done" /\ result.kind = "err"
        /\ NoAuthorizationFlow

-----------------------------------------------------------------------------
(* C6 *)

\* C6: at the end of every invocation the token file either holds the
\* complete credential obtained in this invocation, the invocation having
\* succeeded, or is identical to what it was when the invocation started,
\* also when save itself fails partway through writing.
C6_AllOrNothing ==
    pc = "done" =>
        \/ /\ result.kind = "ok"
           /\ HasOp("refresh") \/ HasOp("exchange")
           /\ Persisted(token_data)
        \/ file = file0

-----------------------------------------------------------------------------
(* C7 *)

NoSession(f) ==
    \/ f.kind = "missing"
    \/ f.kind = "unreadable"
    \/ f.kind = "text" /\ ~from_str_ok(f.doc)

\* C7: with the configuration directory known, a token file that is missing,
\* unreadable or not a valid serialized credential is handled in one and the
\* same way: load's failure is not returned to the caller, nothing is
\* refreshed, and the invocation goes on to the authorization-code flow.
C7_LoadFailureStartsAuthorization ==
    (config_dir /\ pc # "load" /\ NoSession(file0)) =>
        /\ trace[1] = Event("load", "err")
        /\ ~HasOp("refresh")
        /\ pc = "auth_new" => result = NoResult
        /\ pc # "auth_new" => HasOp("verifier")

C7_Witness ==
    /\ file0.kind = "unreadable" /\ HasOp("open") /\ pc = "bind"

-----------------------------------------------------------------------------
(* C8 *)

StrValues(doc, key) ==
    {doc.pairs[i][2].s :
        i \in {j \in Members(doc, key) : doc.pairs[j][2].t = "str"}}

RefreshSucceeded ==
    /\ RefreshAnswered
    /\ response.sent /\ RefreshResponse_ok(response.body)
    /\ result.kind # "panic"

C8_Retention ==
    RefreshSucceeded =>
        LET sent == TheOp("refresh").arg.refresh_token
            new == StrValues(response.body, "refresh_token")
        IN  /\ new = {} => token_data.refresh_token = sent
            /\ new # {} => token_data.refresh_token \in new
            /\ sent = load(file0).refresh_token
            /\ result.kind = "ok" =>
                  /\ load_ok(file)
                  /\ load(file).refresh_token = token_data.refresh_token

\* every write that leaves a credential on disk either keeps the persisted
\* refresh token or stores one that the provider's response carried
C8_Step ==
    (file' # file /\ load_ok(file')) =>
        \/ load_ok(file)
            /\ load(file').refresh_token = load(file).refresh_token
        \/ load(file').refresh_token
                \in StrValues(response.body, "refresh_token")

\* C8: after a successful refresh the resulting and persisted credential
\* carries the refresh token of the request when the response omits one and
\* the new one when the response has one; so, from run to run, the persisted
\* refresh token changes only to one the provider returned, and stays what
\* it was as long as the provider returns none.
C8_RefreshTokenRetention == []C8_Retention /\ [][C8_Step]_vars

C8_Witness ==
    /\ run = 2 /\ pc = "done" /\ result.kind = "ok" /\ HasOp("refresh")
    /\ StrValues(response.body, "refresh_token") = {}
    /\ load_ok(file0) /\ load(file0).access_token = "a2"
    /\ load(file0).refresh_token = "r1"
    /\ file # file0
    /\ load(file).refresh_token = "r1"

-----------------------------------------------------------------------------
(* C9 *)

ExchangeAnswered ==
    HasOp("exchange") /\ pc \notin {"exchange_send", "exchange_recv"}

ApiRejected == "API error carrying the status code and the response body"

\* C9: when the token endpoint answers exchange_code or refresh with a
\* non-success status, the operation fails with an API error that carries
\* that status and the body, and the request is not sent again.
C9_NonSuccessIsApiError ==
    ((RefreshAnswered \/ ExchangeAnswered)
        /\ response.sent /\ ~is_success(response.status)) =>
        /\ pc = "done"
        /\ result = Err(ApiRejected)
        /\ Cardinality(OpIndexes("refresh") \cup OpIndexes("exchange")) = 1

-----------------------------------------------------------------------------
(* C10 *)

CallbackWithoutCode ==
    /\ HasOp("accept")
    /\ TheOp("accept").arg.parses
    /\ QueryValues(TheOp("accept").arg.query, "code") = {}

\* C10: when the one callback request carries no code parameter, the
\* listener fails with its no-code error, the code exchange is never sent,
\* no credential is written and get_valid_token returns that error.
C10_MissingCodeRejected ==
    CallbackWithoutCode =>
        /\ pc = "done"
        /\ result = Err("No code found in callback")
        /\ ~HasOp("exchange") /\ ~HasOp("write")
        /\ file = file0
        /\ listener = "released"

C10_Witness ==
    /\ HasOp("accept")
    /\ TheOp("accept").arg = Request(TRUE, << <<"error", "access_denied">> >>)
    /\ result.kind = "err"

-----------------------------------------------------------------------------
(* C11 *)

\* C11: every inbound request the listener accepts, with or without a code,
\* is answered with the fixed success page before the listener is torn down.
C11_EveryRequestAnswered ==
    HasOp("accept") =>
        /\ HasOp("respond")
        /\ Before("accept", "respond")
        /\ TheOp("respond").arg
              = "Authorization successful! You can close this window."

-----------------------------------------------------------------------------
(* C12 *)

\* C12: the callback socket is bound only from the start of
\* wait_for_callback to the handling of its one request: never before the
\* authorization attempt, at most one bind and one accept, released when the
\* code exchange is sent and when get_valid_token has returned, and never
\* bound on the Fresh and Stale paths.
C12_ListenerWindow ==
    /\ listener = "bound" <=> pc = "recv"
    /\ listener = "bound" => HasOp("bind") /\ ~HasOp("accept")
    /\ listener = "unbound" <=> ~HasOp("bind")
    /\ Cardinality(OpIndexes("bind")) <= 1
    /\ Cardinality(OpIndexes("accept")) <= 1
    /\ HasOp("bind") => HasOp("verifier") /\ HasOp("open")
    /\ HasOp("exchange") => listener = "released"
    /\ pc = "done" => listener # "bound"
    /\ load_ok(file0) => listener = "unbound"

C12_Witness ==
    /\ pc = "done" /\ result.kind = "ok" /\ HasOp("accept") /\ HasOp("exchange")
    /\ listener = "released"

-----------------------------------------------------------------------------
(* C13 *)

C13_BindStep ==
    (pc = "bind" /\ listener' # "bound") =>
        /\ pc' = "done"
        /\ result'.kind = "err"
        /\ file' = file
        /\ trace' = trace

\* C13: when binding the callback listener fails, the listener operation
\* returns a bind-failure error that becomes the error result of
\* get_valid_token; the bind is not tried again, no code exchange is sent and
\* the token file is unchanged.
C13_BindFailureIsReturned == [][C13_BindStep]_vars

-----------------------------------------------------------------------------
(* C14 *)

TokenRequests == OpIndexes("refresh") \cup OpIndexes("exchange")
Fetches == OpIndexes("fetch_tracks") \cup OpIndexes("fetch_artists")
AuthEffects ==
    TokenRequests \cup OpIndexes("open") \cup OpIndexes("bind")
    \cup OpIndexes("accept") \cup OpIndexes("respond") \cup OpIndexes("write")

\* C14: one process invocation sends at most one token-endpoint request
\* (exchange or refresh) and accepts at most one callback request; these and
\* the write of the token file are over before the first data-fetching call,
\* which carries the returned token; and when get_valid_token fails, no
\* data-fetching call is made.
C14_AuthBeforeFetch ==
    /\ Cardinality(TokenRequests) <= 1
    /\ Cardinality(OpIndexes("accept")) <= 1
    /\ \A f \in Fetches :
        /\ pc = "done" /\ result.kind = "ok"
        /\ trace[f].arg = result.value
        /\ \A i \in AuthEffects : i < f
    /\ (pc # "done" \/ result.kind # "ok") =>
            Fetches = {} /\ main_pc = "get_valid_token"

C14_Witness ==
    /\ HasOp("exchange") /\ HasOp("accept") /\ HasOp("write")
    /\ HasOp("fetch_tracks") /\ HasOp("fetch_artists")
    /\ main_pc = "exit"

-----------------------------------------------------------------------------
(* C15 *)

C15_ReturnStep ==
    (result.kind = "none" /\ result'.kind = "ok") =>
        /\ result'.value = token_data'.access_token
        /\ Fresh(token_data', now')

\* C15: whenever get_valid_token returns a token, the credential it belongs
\* to is not Stale at that moment (now < expires_at - 60), whatever expires_in
\* the provider returned and on each of the Fresh, refreshed and newly
\* exchanged paths.
C15_ReturnedTokenIsFresh == [][C15_ReturnStep]_vars

-----------------------------------------------------------------------------
(* C16 *)

DocKeys(doc) == {doc.pairs[i][1] : i \in 1..Len(doc.pairs)}
DocStrings(doc) == {doc.pairs[i][2].s : i \in 1..Len(doc.pairs)}
CredentialKeys == {"access_token", "refresh_token", "expires_at"}

\* what save leaves on disk has the three credential fields and no other
WrittenFields(doc) ==
    /\ DocKeys(doc) \subseteq CredentialKeys
    /\ \A k \in DocKeys(doc) : Cardinality(Members(doc, k)) = 1
    /\ doc.closed => DocKeys(doc) = CredentialKeys

\* the effect e of the invocation does not carry the string v
Without(e, v) ==
    CASE e.op \in {"print", "respond", "bind", "load",
                   "fetch_tracks", "fetch_artists"} -> e.arg # v
      [] e.op = "write" -> v \notin DocStrings(e.arg.doc)
      [] e.op = "open" ->
            /\ e.arg.base # v
            /\ \A i \in 1..Len(e.arg.query) : e.arg.query[i][2] # v
      [] e.op = "accept" ->
            \A i \in 1..Len(e.arg.query) : e.arg.query[i][2] # v
      [] e.op = "refresh" -> e.arg.code_verifier # v
      [] OTHER -> TRUE

\* C16: the PKCE verifier exists only in memory and in the body of the
\* exchange request: whatever the program writes to the token file has the
\* fields access_token, refresh_token and expires_at only (all three when
\* the write is complete) and never the verifier; the verifier is not printed
\* and is not in the authorization URL, which carries the challenge.
C16_VerifierConfined ==
    /\ \A i \in OpIndexes("write") : WrittenFields(trace[i].arg.doc)
    /\ HasOp("write") => WrittenFields(file.doc)
    /\ HasOp("verifier") =>
        /\ auth.code_verifier = TheOp("verifier").arg
        /\ \A i \in 1..Len(trace) : Without(trace[i], auth.code_verifier)
        /\ file.kind = "text" => auth.code_verifier \notin DocStrings(file.doc)
        /\ \A i \in OpIndexes("open") :
              QueryValues(trace[i].arg.query, "code_challenge")
                = {generate_code_challenge(auth.code_verifier)}
        /\ \A i \in OpIndexes("exchange") :
              trace[i].arg.code_verifier = auth.code_verifier

C16_Witness ==
    /\ pc = "done" /\ result.kind = "ok"
    /\ HasOp("open") /\ HasOp("exchange") /\ HasOp("write")
    /\ TheOp("exchange").arg.code_verifier = "v2"
    /\ Persisted(token_data)

-----------------------------------------------------------------------------
(* C17 *)

\* well-formed credentials: any two strings and any u64
Credentials ==
    {AuthToken(at, rt, exp) :
        at \in {"", "a1", "a 2"}, rt \in {"", "r1"},
        exp \in {0, 59, 60, U64 - 1}}

\* get_valid_token is about to save an arbitrary credential
InitSaveLoad ==
    /\ token_data \in Credentials
    /\ file \in {FileMissing, FileUnreadable}
    /\ now = 40
    /\ overflow_checks \in BOOLEAN
    /\ config_dir = TRUE
    /\ run = 1
    /\ pc = "save_exchanged"
    /\ file0 = file
    /\ auth = NoAuth
    /\ code = ""
    /\ response = NoResponse
    /\ result = NoResult
    /\ listener = "unbound"
    /\ main_pc = "get_valid_token"
    /\ trace = <<>>

SaveLoadSpec == InitSaveLoad /\ [][Next]_vars

\* after a successful save the file loads, and loads as the saved credential
C17_Saved ==
    (pc = "done" /\ result.kind = "ok" /\ HasOp("write")) =>
        /\ load_ok(file)
        /\ load(file) = token_data

\* the load of a later run, no write in between, yields that credential
C17_LoadStep ==
    \A c \in Credentials :
        (pc = "load" /\ file = FileText(to_string_pretty(c))) =>
            (pc' = "is_expired" /\ token_data' = c)

\* C17: for every well-formed credential c, a successful save(c) followed by
\* load, with no write in between, gives a credential equal to c in
\* access_token, refresh_token and expires_at.
C17_RoundTrip == []C17_Saved /\ [][C17_LoadStep]_vars

C17_Witness ==
    /\ run = 2 /\ pc = "is_expired"
    /\ token_data = AuthToken("a 2", "", U64 - 1)
    /\ file = FileText(to_string_pretty(token_data))

-----------------------------------------------------------------------------
(* C18 *)

\* a persisted credential stays: no step of the program leaves the file
\* without a parseable credential once it holds one
C18_StaysParseable == load_ok(file) => load_ok(file')

\* an invocation that starts with a parseable credential never authorizes
C18_NoSecondAuthorization == load_ok(file0) => NoAuthorizationFlow

\* C18: with no outside change of the token file, once an invocation has
\* persisted a credential the file holds a parseable credential at the start
\* of every later invocation, so none of them runs the authorization-code
\* flow again, whatever refresh or save failures happen in between.
C18_OncePersistedAlwaysLoadable ==
    []C18_NoSecondAuthorization /\ [][C18_StaysParseable]_vars

-----------------------------------------------------------------------------
(* C19 *)

\* C19: a token string returned by get_valid_token is the access_token of
\* the credential in the token file at that moment: after a refresh or a
\* code exchange the save has completed before the return, and a failed save
\* makes the invocation return an error, not the new token.
C19_ReturnedIsStored ==
    /\ result.kind = "ok" =>
        /\ load_ok(file)
        /\ load(file).access_token = result.value
    /\ (result.kind = "ok" /\ TokenRequests # {}) =>
        /\ Persisted(token_data)
        /\ \E w \in OpIndexes("write") :
              /\ trace[w].arg = file
              /\ \A i \in TokenRequests : i < w
    /\ (pc = "done" /\ \E w \in OpIndexes("write") : ~trace[w].arg.doc.closed)
        => result.kind = "err"

C19_Witness ==
    /\ pc = "done" /\ result = Ok("a2") /\ HasOp("refresh") /\ HasOp("write")
    /\ file # file0 /\ load(file).access_token = "a2"
    /\ main_pc = "get_valid_token"

-----------------------------------------------------------------------------
(* C20 *)

\* the steps of one call of get_valid_token
GetValidToken ==
    \/ Load
    \/ IsExpired
    \/ RefreshSend
    \/ RefreshRecv
    \/ SaveRefreshed
    \/ AuthNew
    \/ OpenBrowser
    \/ Bind
    \/ Recv
    \/ ExchangeSend
    \/ ExchangeRecv
    \/ SaveExchanged

\* the program keeps running; every token-endpoint request is answered or
\* fails in transport, and a callback request arrives while the listener
\* waits
LiveSpec == Init /\ [][Next]_vars /\ WF_vars(GetValidToken)

\* the wait for the callback ends only with a request (or a failure of
\* recv itself): the passing of time does not end it
C20_WaitStep ==
    (pc = "recv" /\ pc' # "recv") =>
        \/ Len(trace') > Len(trace) /\ trace'[Len(trace) + 1].op = "accept"
        \/ result' = Err("io: recv failed")

\* get_valid_token returns a Result: a token, or an error handed to main
Returned == result.kind \in {"ok", "err"}

\* C20: with every token-endpoint request answered (or failed in transport)
\* and, on cold start, a callback request arriving, every invocation of
\* get_valid_token ends by returning a token or an error; the wait for the
\* callback has no timeout, and the code exchange is never reached without
\* an accepted request.
C20_Terminates ==
    /\ \A r \in 1..MaxRuns :
          (run = r /\ pc = "load") ~> (run = r /\ pc = "done" /\ Returned)
    /\ [](HasOp("exchange") => HasOp("accept"))
    /\ [][C20_WaitStep]_vars

====
